---------------------------- MODULE Spec2Model ----------------------------
(***************************************************************************)
(* A model of QAdwaitaDecorations (src/src/qadwaitadecorations.cpp), the   *)
(* client-side window decoration of a Wayland window: the settings model   *)
(* (button layout, placement, palette), the geometry engine (margins,      *)
(* button rectangles) and the pointer/touch state machine.                 *)
(*                                                                         *)
(* The build modelled is the one with HAS_QT6_SUPPORT defined (shadow      *)
(* margins, tiling states).  Strings are sequences of symbols: each of the *)
(* words "close", "maximize", "minimize", "appmenu" stands for its         *)
(* characters, "," and ":" are the separators.  A token made of several    *)
(* adjacent words is the concatenation of their characters (it contains    *)
(* "close" as a substring, and is not equal to "close").                   *)
(***************************************************************************)
EXTENDS Integers, Sequences, FiniteSets, TLC

VARIABLES
    m_placement,                \* Placement: "Left" or "Right"
    m_buttons,                  \* QMap<Button, position>
    m_clicking,                 \* the armed button, or "None"
    m_hoveredButtons,           \* set of hovered buttons
    m_lastButtonClick,          \* time (ms) of the last press seen by doubleClickButton
    m_lastButtonClickPosition,  \* its position
    m_colors,                   \* "empty", "light" or "dark": the palette installed
    m_fontBold,                 \* the bold flag of m_font
    m_mouseButtons,             \* the base class's record of the previous button state
    m_shadowPixmap,             \* the cached shadow bitmap: its size and the border colour in it
    active,                     \* host: Qt::WindowActive is set
    maximized,                  \* host: Qt::WindowMaximized is set
    tilingStates,               \* host: set of tiled edges
    surfaceSize,                \* host: <<width, height>> of the decorated surface
    now,                        \* QDateTime::currentDateTime(), in ms since construction
    phase,                      \* "constructed" until the deferred initConfiguration ran
    fetch,                      \* the ReadAll call: "none", "pending" or "done"
    lastEvent,                  \* the handler that ran last, its input and its outcome
    pressIn,                    \* where the left press now held down started
    lastStripPress              \* time and position of the last left press on the titlebar strip

vars == << m_placement, m_buttons, m_clicking, m_hoveredButtons, m_lastButtonClick,
           m_lastButtonClickPosition, m_colors, m_fontBold, m_mouseButtons,
           m_shadowPixmap, active, maximized,
           tilingStates, surfaceSize, now, phase, fetch, lastEvent,
           pressIn, lastStripPress >>

configVars == << m_placement, m_buttons, m_colors, m_fontBold >>
interactionVars == << m_clicking, m_hoveredButtons, m_lastButtonClick,
                      m_lastButtonClickPosition, m_mouseButtons >>
hostVars == << active, maximized, tilingStates, surfaceSize >>
spanVars == << pressIn, lastStripPress >>

-----------------------------------------------------------------------------
(* Program constants *)

ceButtonSpacing == 12
ceButtonWidth == 24
ceShadowsWidth == 10
ceTitlebarHeight == 38
ceWindowBorderWidth == 1
doubleClickInterval == 500
doubleClickDistance == 5

Buttons == {"Close", "Minimize", "Maximize"}
Edges == {"Top", "Bottom", "Left", "Right"}

(* Bounds of the model *)

MaxLayoutLen == 3      \* symbols in an arbitrary layout string
MaxTime == 900         \* the clock stops advancing here

-----------------------------------------------------------------------------
(* Strings and the layout parser *)

Alphabet == {"close", "maximize", "minimize", "appmenu", ",", ":"}

SpecExampleLayout == <<"close", ":", "minimize", ",", "maximize">>
GnomeDefaultLayout == <<"appmenu", ":", "close">>
AllRightLayout == <<"appmenu", ":", "minimize", ",", "maximize", ",", "close">>
AllLeftLayout == <<"close", ",", "minimize", ",", "maximize", ":", "appmenu">>
NoCloseLayout == <<"appmenu", ":", "minimize", ",", "maximize">>

NamedLayouts == {SpecExampleLayout, GnomeDefaultLayout, AllRightLayout, AllLeftLayout,
                 NoCloseLayout}

\* every string of at most MaxLayoutLen symbols, and the layouts named above
Layouts == UNION {[1..k -> Alphabet] : k \in 0..MaxLayoutLen} \cup NamedLayouts

RECURSIVE Split(_, _)
\* QString::split(sep): empty parts are kept, the empty string gives one empty part
Split(s, sep) ==
    IF s = <<>> THEN << <<>> >>
    ELSE LET rest == Split(Tail(s), sep)
         IN  IF Head(s) = sep
             THEN << <<>> >> \o rest
             ELSE << <<Head(s)>> \o Head(rest) >> \o Tail(rest)

\* QString::contains("close"): a substring test
ContainsClose(s) == \E i \in 1..Len(s) : s[i] = "close"

Reverse(s) == [i \in 1..Len(s) |-> s[Len(s) + 1 - i]]

\* QMap::insert, QMap::value (0 for an absent key), QMap::contains
Insert(m, k, v) == [x \in (DOMAIN m) \cup {k} |-> IF x = k THEN v ELSE m[x]]
Value(m, k) == IF k \in DOMAIN m THEN m[k] ELSE 0
HasButton(m, k) == k \in DOMAIN m
EmptyMap == [x \in {} |-> 0]

ButtonOfToken(button) ==
    IF button = <<"close">> THEN "Close"
    ELSE IF button = <<"maximize">> THEN "Maximize"
    ELSE "Minimize"

RECURSIVE InsertButtons(_, _, _)
\* the loop over buttonList, pos counting from its first value
InsertButtons(buttonList, pos, m) ==
    IF buttonList = <<>> THEN m
    ELSE InsertButtons(Tail(buttonList), pos + 1,
                       Insert(m, ButtonOfToken(Head(buttonList)), pos))

\* updateTitlebarLayout with the previous configuration removed before the segment test
updateTitlebarLayout_ClearFirst(cfg, layout) ==
    LET layouts == Split(layout, ":")
    IN  IF Len(layouts) # 2
        THEN [placement |-> cfg.placement, buttons |-> EmptyMap, applied |-> FALSE]
        ELSE LET leftLayout == layouts[1]
                 rightLayout == layouts[2]
                 placement == IF ContainsClose(leftLayout) THEN "Left" ELSE "Right"
                 buttonLayout == IF placement = "Right" THEN rightLayout ELSE leftLayout
                 split == Split(buttonLayout, ",")
                 buttonList == IF placement = "Right" THEN Reverse(split) ELSE split
             IN  [placement |-> placement,
                  buttons |-> InsertButtons(buttonList, 1, EmptyMap),
                  applied |-> TRUE]

\* updateTitlebarLayout reading the buttons of the right side whatever the placement
updateTitlebarLayout_RightSide(cfg, layout) ==
    LET layouts == Split(layout, ":")
    IN  IF Len(layouts) # 2
        THEN [placement |-> cfg.placement, buttons |-> cfg.buttons, applied |-> FALSE]
        ELSE LET leftLayout == layouts[1]
                 rightLayout == layouts[2]
                 placement == IF ContainsClose(leftLayout) THEN "Left" ELSE "Right"
                 buttonList == Reverse(Split(rightLayout, ","))
             IN  [placement |-> placement,
                  buttons |-> InsertButtons(buttonList, 1, EmptyMap),
                  applied |-> TRUE]

\* updateTitlebarLayout that keeps the order of the right side as written
updateTitlebarLayout_NoReverse(cfg, layout) ==
    LET layouts == Split(layout, ":")
    IN  IF Len(layouts) # 2
        THEN [placement |-> cfg.placement, buttons |-> cfg.buttons, applied |-> FALSE]
        ELSE LET leftLayout == layouts[1]
                 rightLayout == layouts[2]
                 placement == IF ContainsClose(leftLayout) THEN "Left" ELSE "Right"
                 buttonLayout == IF placement = "Right" THEN rightLayout ELSE leftLayout
             IN  [placement |-> placement,
                  buttons |-> InsertButtons(Split(buttonLayout, ","), 1, EmptyMap),
                  applied |-> TRUE]

\* updateTitlebarLayout that inserts into the previous button map without clearing it
updateTitlebarLayout_Incremental(cfg, layout) ==
    LET layouts == Split(layout, ":")
    IN  IF Len(layouts) # 2
        THEN [placement |-> cfg.placement, buttons |-> cfg.buttons, applied |-> FALSE]
        ELSE LET leftLayout == layouts[1]
                 rightLayout == layouts[2]
                 placement == IF ContainsClose(leftLayout) THEN "Left" ELSE "Right"
                 buttonLayout == IF placement = "Right" THEN rightLayout ELSE leftLayout
                 split == Split(buttonLayout, ",")
                 buttonList == IF placement = "Right" THEN Reverse(split) ELSE split
             IN  [placement |-> placement,
                  buttons |-> InsertButtons(buttonList, 1, cfg.buttons),
                  applied |-> TRUE]

\* updateTitlebarLayout on configuration cfg = [placement, buttons]; "applied" tells
\* whether the string passed the segment test (and forceRepaint was called)
updateTitlebarLayout(cfg, layout) ==
    LET layouts == Split(layout, ":")
    IN  IF Len(layouts) # 2
        THEN [placement |-> cfg.placement, buttons |-> cfg.buttons, applied |-> FALSE]
        ELSE LET leftLayout == layouts[1]
                 rightLayout == layouts[2]
                 placement == IF ContainsClose(leftLayout) THEN "Left" ELSE "Right"
                 buttonLayout == IF placement = "Right" THEN rightLayout ELSE leftLayout
                 split == Split(buttonLayout, ",")
                 buttonList == IF placement = "Right" THEN Reverse(split) ELSE split
             IN  [placement |-> placement,
                  buttons |-> InsertButtons(buttonList, 1, EmptyMap),
                  applied |-> TRUE]


-----------------------------------------------------------------------------
(* Geometry engine *)

Point(x, y) == [x |-> x, y |-> y]
Margins(l, t, r, b) == [left |-> l, top |-> t, right |-> r, bottom |-> b]
Rect(x, y, w, h) == [x |-> x, y |-> y, w |-> w, h |-> h]

\* QRect: right() and bottom() are the last column and row inside the rectangle
RectLeft(r) == r.x
RectTop(r) == r.y
RectRight(r) == r.x + r.w - 1
RectBottom(r) == r.y + r.h - 1

\* QRectF::contains(QPointF): the four edges belong to the rectangle
Contains(r, p) == /\ p.x >= r.x /\ p.x <= r.x + r.w
                  /\ p.y >= r.y /\ p.y <= r.y + r.h

\* margins(marginsType), marginsType in "Full", "ShadowsExcluded", "ShadowsOnly"
\* marginsBase without the window border
marginsBase_NoBorder(marginsType) ==
    IF marginsType = "ShadowsExcluded" THEN ceWindowBorderWidth
    ELSE ceShadowsWidth

marginsBase(marginsType) ==
    IF marginsType = "ShadowsExcluded" THEN ceWindowBorderWidth
    ELSE ceShadowsWidth + ceWindowBorderWidth

\* sideMargins that gives the shadow-only kind the border as well
sideMargins_WithBorder(marginsType) == marginsBase(marginsType)

sideMargins(marginsType) ==
    IF marginsType = "ShadowsOnly" THEN ceShadowsWidth ELSE marginsBase(marginsType)

topMargins(marginsType) ==
    IF marginsType = "ShadowsOnly" THEN ceShadowsWidth
    ELSE ceTitlebarHeight + marginsBase(marginsType)

\* margins that never looks at the tiling states
margins_IgnoreTiling(marginsType) ==
    IF maximized
    THEN Margins(0, IF marginsType = "ShadowsOnly" THEN 0 ELSE ceTitlebarHeight, 0, 0)
    ELSE Margins(sideMargins(marginsType), topMargins(marginsType),
                 sideMargins(marginsType), sideMargins(marginsType))

\* margins that lets the tiling states decide whenever an edge is tiled
margins_TilingFirst(marginsType) ==
    IF maximized /\ tilingStates = {}
    THEN Margins(0, IF marginsType = "ShadowsOnly" THEN 0 ELSE ceTitlebarHeight, 0, 0)
    ELSE Margins(IF "Left" \in tilingStates THEN 0 ELSE sideMargins(marginsType),
                 IF "Top" \in tilingStates
                     THEN (IF marginsType = "ShadowsOnly" THEN 0 ELSE ceTitlebarHeight)
                     ELSE topMargins(marginsType),
                 IF "Right" \in tilingStates THEN 0 ELSE sideMargins(marginsType),
                 IF "Bottom" \in tilingStates THEN 0 ELSE sideMargins(marginsType))

margins(marginsType) ==
    IF maximized
    THEN Margins(0, IF marginsType = "ShadowsOnly" THEN 0 ELSE ceTitlebarHeight, 0, 0)
    ELSE Margins(IF "Left" \in tilingStates THEN 0 ELSE sideMargins(marginsType),
                 IF "Top" \in tilingStates
                     THEN (IF marginsType = "ShadowsOnly" THEN 0 ELSE ceTitlebarHeight)
                     ELSE topMargins(marginsType),
                 IF "Right" \in tilingStates THEN 0 ELSE sideMargins(marginsType),
                 IF "Bottom" \in tilingStates THEN 0 ELSE sideMargins(marginsType))

\* QRect - QMargins and QRect + QMargins
MarginsRemoved(r, m) ==
    Rect(r.x + m.left, r.y + m.top, r.w - m.left - m.right, r.h - m.top - m.bottom)
MarginsAdded(r, m) ==
    Rect(r.x - m.left, r.y - m.top, r.w + m.left + m.right, r.h + m.top + m.bottom)

\* the host's QWaylandWindow::windowContentGeometry(): the surface without its shadows
hostContentGeometry ==
    MarginsRemoved(Rect(0, 0, surfaceSize[1], surfaceSize[2]), margins("ShadowsOnly"))

windowContentGeometry == MarginsAdded(hostContentGeometry, margins("ShadowsOnly"))

\* window()->width(): the width of the QWindow, the surface without the frame
windowWidth == surfaceSize[1] - margins("Full").left - margins("Full").right

\* buttonX that leaves the spacing out
buttonX_NoSpacing(btnPos) ==
    IF m_placement = "Right"
    THEN windowContentGeometry.w - ceButtonWidth * btnPos - margins("ShadowsOnly").right
    ELSE 0 + ceButtonWidth * btnPos + margins("ShadowsOnly").left - ceButtonWidth

buttonX(btnPos) ==
    IF m_placement = "Right"
    THEN windowContentGeometry.w - ceButtonWidth * btnPos
           - ceButtonSpacing * btnPos - margins("ShadowsOnly").right
    ELSE 0 + ceButtonWidth * btnPos + ceButtonSpacing * btnPos
           + margins("ShadowsOnly").left - ceButtonWidth

buttonY == (margins("Full").top + margins("Full").bottom - ceButtonWidth) \div 2

buttonRect(button) ==
    Rect(buttonX(Value(m_buttons, button)), buttonY, ceButtonWidth, ceButtonWidth)

-----------------------------------------------------------------------------
(* Interaction state machine.  The handlers thread a record st through the  *)
(* calls they make: the interaction fields, the requests sent to the host   *)
(* so far (reqs, in order), the cursor shape last asked of the host (cursor, *)
(* "" if none was, "Arrow" for restoreMouseCursor) and the number of         *)
(* forceRepaint calls (repaints).                                            *)

Req(name) == [req |-> name, edges |-> {}]
Resize(edges) == [req |-> "resize", edges |-> edges]

\* QWaylandAbstractDecoration::isLeftClicked / isLeftReleased against m_mouseButtons
isLeftClicked(b) == "Left" \notin m_mouseButtons /\ "Left" \in b
isLeftReleased(b) == "Left" \in m_mouseButtons /\ "Left" \notin b

Emit(st, r) == [st EXCEPT !.reqs = Append(@, r)]
SetCursor(st, shape) == [st EXCEPT !.cursor = shape]

\* QWaylandAbstractDecoration::startResize / startMove: only on the press transition
startResize(st, edges, b) == IF isLeftClicked(b) THEN Emit(st, Resize(edges)) ELSE st
startMove(st, b) == IF isLeftClicked(b) THEN Emit(st, Req("move")) ELSE st

updateButtonHoverState(st, hoveredButton) ==
    LET new == {hoveredButton} \cap Buttons
    IN  IF new # st.hovered
        THEN [st EXCEPT !.hovered = new, !.repaints = @ + 1]
        ELSE st

\* clickButton that does not arm the button on the press
clickButton_NoArm(st, b, btn) ==
    LET s == [st EXCEPT !.repaints = @ + 1]
    IN  IF isLeftClicked(b)
        THEN [st |-> s, fired |-> FALSE]
        ELSE IF isLeftReleased(b)
        THEN [st |-> [s EXCEPT !.clicking = "None"], fired |-> st.clicking = btn]
        ELSE [st |-> s, fired |-> FALSE]

\* clickButton that fires on the release whatever button was armed
clickButton_AnyRelease(st, b, btn) ==
    LET s == [st EXCEPT !.repaints = @ + 1]
    IN  IF isLeftClicked(b)
        THEN [st |-> [s EXCEPT !.clicking = btn], fired |-> FALSE]
        ELSE IF isLeftReleased(b)
        THEN [st |-> [s EXCEPT !.clicking = "None"], fired |-> TRUE]
        ELSE [st |-> s, fired |-> FALSE]

\* returns [st, fired]; the scope guard repaints on every path
clickButton(st, b, btn) ==
    LET s == [st EXCEPT !.repaints = @ + 1]
    IN  IF isLeftClicked(b)
        THEN [st |-> [s EXCEPT !.clicking = btn], fired |-> FALSE]
        ELSE IF isLeftReleased(b)
        THEN [st |-> [s EXCEPT !.clicking = "None"], fired |-> st.clicking = btn]
        ELSE [st |-> s, fired |-> FALSE]

Abs(n) == IF n < 0 THEN -n ELSE n
Max(a, b) == IF a >= b THEN a ELSE b

\* doubleClickButton comparing the times only
doubleClickButton_TimeOnly(st, b, local, currentTime) ==
    IF isLeftClicked(b)
    THEN LET clickInterval == currentTime - st.lastClick
             s == [st EXCEPT !.lastClick = currentTime]
         IN  IF clickInterval <= doubleClickInterval
             THEN [st |-> s, isDouble |-> TRUE]
             ELSE [st |-> [s EXCEPT !.lastPos = local], isDouble |-> FALSE]
    ELSE [st |-> st, isDouble |-> FALSE]

\* doubleClickButton with a strict comparison of the interval
doubleClickButton_Strict(st, b, local, currentTime) ==
    IF isLeftClicked(b)
    THEN LET clickInterval == currentTime - st.lastClick
             posDiffX == st.lastPos.x - local.x
             posDiffY == st.lastPos.y - local.y
             s == [st EXCEPT !.lastClick = currentTime]
         IN  IF /\ clickInterval < doubleClickInterval
                /\ posDiffX <= doubleClickDistance /\ posDiffX >= -doubleClickDistance
                /\ posDiffY <= doubleClickDistance /\ posDiffY >= -doubleClickDistance
             THEN [st |-> s, isDouble |-> TRUE]
             ELSE [st |-> [s EXCEPT !.lastPos = local], isDouble |-> FALSE]
    ELSE [st |-> st, isDouble |-> FALSE]

\* doubleClickButton recording the time of a press only when it is a single click
doubleClickButton_KeepTime(st, b, local, currentTime) ==
    IF isLeftClicked(b)
    THEN LET clickInterval == currentTime - st.lastClick
             posDiffX == st.lastPos.x - local.x
             posDiffY == st.lastPos.y - local.y
         IN  IF /\ clickInterval <= doubleClickInterval
                /\ posDiffX <= doubleClickDistance /\ posDiffX >= -doubleClickDistance
                /\ posDiffY <= doubleClickDistance /\ posDiffY >= -doubleClickDistance
             THEN [st |-> st, isDouble |-> TRUE]
             ELSE [st |-> [st EXCEPT !.lastClick = currentTime, !.lastPos = local],
                   isDouble |-> FALSE]
    ELSE [st |-> st, isDouble |-> FALSE]

\* returns [st, isDouble]
doubleClickButton(st, b, local, currentTime) ==
    IF isLeftClicked(b)
    THEN LET clickInterval == currentTime - st.lastClick
             posDiffX == st.lastPos.x - local.x
             posDiffY == st.lastPos.y - local.y
             s == [st EXCEPT !.lastClick = currentTime]
         IN  IF /\ clickInterval <= doubleClickInterval
                /\ posDiffX <= doubleClickDistance /\ posDiffX >= -doubleClickDistance
                /\ posDiffY <= doubleClickDistance /\ posDiffY >= -doubleClickDistance
             THEN [st |-> s, isDouble |-> TRUE]
             ELSE [st |-> [s EXCEPT !.lastPos = local], isDouble |-> FALSE]
    ELSE [st |-> st, isDouble |-> FALSE]

processMouseLeft(st, local, b) == startResize(SetCursor(st, "SizeHor"), {"Left"}, b)

processMouseRight(st, local, b) == startResize(SetCursor(st, "SizeHor"), {"Right"}, b)

processMouseBottom(st, local, b) ==
    IF local.x <= margins("Full").left
    THEN startResize(SetCursor(st, "SizeBDiag"), {"Bottom", "Left"}, b)
    ELSE IF local.x > windowWidth + margins("Full").right
    THEN startResize(SetCursor(st, "SizeFDiag"), {"Bottom", "Right"}, b)
    ELSE startResize(SetCursor(st, "SizeVer"), {"Bottom"}, b)

\* a button's click has fired: the request goes to the host and the hover flag is cleared
buttonClicked(c, button, request) ==
    IF c.fired
    THEN [Emit(c.st, Req(request)) EXCEPT !.hovered = @ \ {button}]
    ELSE c.st

\* the last branch of processMouseTop: window menu on the right button, then move
\* showWindowMenu asked for on the left button
showWindowMenu_LeftButton(st, b) == IF b = {"Left"} THEN Emit(st, Req("showMenu")) ELSE st

showWindowMenu(st, b) == IF b = {"Right"} THEN Emit(st, Req("showMenu")) ELSE st

titlebarClicked(d, b) ==
    IF d.isDouble
    THEN Emit(d.st, Req("toggleMaximize"))
    ELSE startMove(SetCursor(showWindowMenu(d.st, b), "Arrow"), b)

\* a left press as doubleClickButton records it
recordPress(st, b, local, currentDateTime) ==
    IF isLeftClicked(b)
    THEN [st EXCEPT !.lastClick = currentDateTime, !.lastPos = local]
    ELSE st

\* processMouseTop in which a press on a button is recorded for the double-click test
processMouseTopArea_AnyPress(st, local, b, surfaceRect, mg, currentDateTime) ==
    IF local.y <= RectTop(surfaceRect) + mg.bottom
    THEN IF local.x <= mg.left
         THEN startResize(SetCursor(st, "SizeFDiag"), {"Top", "Left"}, b)
         ELSE IF local.x > RectRight(surfaceRect) - mg.left
         THEN startResize(SetCursor(st, "SizeBDiag"), {"Top", "Right"}, b)
         ELSE startResize(SetCursor(st, "SizeVer"), {"Top"}, b)
    ELSE IF local.x <= RectLeft(surfaceRect) + mg.left
    THEN processMouseLeft(st, local, b)
    ELSE IF local.x > RectRight(surfaceRect) - mg.right
    THEN processMouseRight(st, local, b)
    ELSE IF Contains(buttonRect("Close"), local)
    THEN updateButtonHoverState(
             buttonClicked(clickButton(recordPress(st, b, local, currentDateTime),
                                       b, "Close"),
                           "Close", "close"), "Close")
    ELSE IF HasButton(m_buttons, "Maximize") /\ Contains(buttonRect("Maximize"), local)
    THEN buttonClicked(clickButton(updateButtonHoverState(
                                       recordPress(st, b, local, currentDateTime),
                                       "Maximize"), b, "Maximize"),
                       "Maximize", "toggleMaximize")
    ELSE IF HasButton(m_buttons, "Minimize") /\ Contains(buttonRect("Minimize"), local)
    THEN buttonClicked(clickButton(updateButtonHoverState(
                                       recordPress(st, b, local, currentDateTime),
                                       "Minimize"), b, "Minimize"),
                       "Minimize", "minimize")
    ELSE titlebarClicked(doubleClickButton(st, b, local, currentDateTime), b)

\* processMouseTop after its hover reset, with surfaceRect, margins() and
\* currentDateTime as it holds them
processMouseTopArea(st, local, b, surfaceRect, mg, currentDateTime) ==
    IF local.y <= RectTop(surfaceRect) + mg.bottom
    THEN IF local.x <= mg.left
         THEN startResize(SetCursor(st, "SizeFDiag"), {"Top", "Left"}, b)
         ELSE IF local.x > RectRight(surfaceRect) - mg.left
         THEN startResize(SetCursor(st, "SizeBDiag"), {"Top", "Right"}, b)
         ELSE startResize(SetCursor(st, "SizeVer"), {"Top"}, b)
    ELSE IF local.x <= RectLeft(surfaceRect) + mg.left
    THEN processMouseLeft(st, local, b)
    ELSE IF local.x > RectRight(surfaceRect) - mg.right
    THEN processMouseRight(st, local, b)
    ELSE IF Contains(buttonRect("Close"), local)
    THEN updateButtonHoverState(buttonClicked(clickButton(st, b, "Close"),
                                              "Close", "close"), "Close")
    ELSE IF HasButton(m_buttons, "Maximize") /\ Contains(buttonRect("Maximize"), local)
    THEN buttonClicked(clickButton(updateButtonHoverState(st, "Maximize"), b, "Maximize"),
                       "Maximize", "toggleMaximize")
    ELSE IF HasButton(m_buttons, "Minimize") /\ Contains(buttonRect("Minimize"), local)
    THEN buttonClicked(clickButton(updateButtonHoverState(st, "Minimize"), b, "Minimize"),
                       "Minimize", "minimize")
    ELSE titlebarClicked(doubleClickButton(st, b, local, currentDateTime), b)

processMouseTop(st, local, b) ==
    processMouseTopArea(IF /\ ~Contains(buttonRect("Close"), local)
                           /\ ~Contains(buttonRect("Maximize"), local)
                           /\ ~Contains(buttonRect("Minimize"), local)
                        THEN updateButtonHoverState(st, "None")
                        ELSE st,
                        local, b, windowContentGeometry, margins("Full"), now)

\* the chain of area tests without its last test: what is not above, below or left
\* is taken to be right
handleMouseArea_NoClient(st, local, b, surfaceRect, mg) ==
    IF local.y <= RectTop(surfaceRect) + mg.top
    THEN processMouseTop(st, local, b)
    ELSE IF local.y > RectBottom(surfaceRect) - mg.bottom
    THEN processMouseBottom(st, local, b)
    ELSE IF local.x <= RectLeft(surfaceRect) + mg.left
    THEN processMouseLeft(st, local, b)
    ELSE processMouseRight(st, local, b)

\* the chain of area tests with the sides tested before top and bottom
mouseArea_SidesFirst(local, surfaceRect, mg) ==
    IF local.x <= RectLeft(surfaceRect) + mg.left THEN "Left"
    ELSE IF local.x > RectRight(surfaceRect) - mg.right THEN "Right"
    ELSE IF local.y <= RectTop(surfaceRect) + mg.top THEN "Top"
    ELSE IF local.y > RectBottom(surfaceRect) - mg.bottom THEN "Bottom"
    ELSE "Client"

\* the chain of area tests of handleMouse: the area the pointer is in
mouseArea(local, surfaceRect, mg) ==
    IF local.y <= RectTop(surfaceRect) + mg.top THEN "Top"
    ELSE IF local.y > RectBottom(surfaceRect) - mg.bottom THEN "Bottom"
    ELSE IF local.x <= RectLeft(surfaceRect) + mg.left THEN "Left"
    ELSE IF local.x > RectRight(surfaceRect) - mg.right THEN "Right"
    ELSE "Client"

\* what handleMouse does in each area
processMouseIn(area, st, local, b) ==
    IF area = "Top" THEN processMouseTop(st, local, b)
    ELSE IF area = "Bottom" THEN processMouseBottom(st, local, b)
    ELSE IF area = "Left" THEN processMouseLeft(st, local, b)
    ELSE IF area = "Right" THEN processMouseRight(st, local, b)
    ELSE SetCursor(st, "Arrow")

\* handleMouse after its hover reset
handleMouseArea(st, local, b, surfaceRect, mg) ==
    processMouseIn(mouseArea(local, surfaceRect, mg), st, local, b)

\* the end of handleMouse without the reset
handleMouseRelease_Skip(st, b) == st

\* the end of handleMouse: a release disarms whatever button was armed
handleMouseRelease(st, b) ==
    IF isLeftReleased(b)
    THEN [st EXCEPT !.clicking = "None", !.repaints = @ + 1]
    ELSE st

handleMouseHover(st, local) ==
    IF local.y > margins("Full").top THEN updateButtonHoverState(st, "None") ELSE st

\* handleMouse that leaves the shadows out of the margins of its area tests
handleMouse_NoShadow(st, local, b) ==
    handleMouseRelease(handleMouseArea(handleMouseHover(st, local), local, b,
                                       windowContentGeometry, margins("ShadowsExcluded")),
                       b)

\* handleMouse without the reset of the armed button on a release
handleMouse_NoReset(st, local, b) ==
    handleMouseArea(handleMouseHover(st, local), local, b,
                    windowContentGeometry, margins("Full"))

\* handleMouse returns false on every path
handleMouse(st, local, b) ==
    handleMouseRelease(handleMouseArea(handleMouseHover(st, local), local, b,
                                       windowContentGeometry, margins("Full")), b)

\* handleTouch returns [st, handled]
handleTouch(st, local, state) ==
    IF state # "Pressed"
    THEN [st |-> st, handled |-> FALSE]
    ELSE IF Contains(buttonRect("Close"), local)
    THEN [st |-> Emit(st, Req("close")), handled |-> TRUE]
    ELSE IF HasButton(m_buttons, "Maximize") /\ Contains(buttonRect("Maximize"), local)
    THEN [st |-> Emit(st, Req("toggleMaximize")), handled |-> TRUE]
    ELSE IF HasButton(m_buttons, "Minimize") /\ Contains(buttonRect("Minimize"), local)
    THEN [st |-> Emit(st, Req("minimize")), handled |-> TRUE]
    ELSE IF local.y <= margins("Full").top
    THEN [st |-> Emit(st, Req("move")), handled |-> TRUE]
    ELSE [st |-> st, handled |-> FALSE]

\* the interaction fields as a handler finds them
CurrentSt == [clicking |-> m_clicking, hovered |-> m_hoveredButtons,
              lastClick |-> m_lastButtonClick, lastPos |-> m_lastButtonClickPosition,
              cursor |-> "", reqs |-> <<>>, repaints |-> 0]

-----------------------------------------------------------------------------
(* What the model records about the handler that ran last, and about the    *)
(* press-to-release span of the left button.  These are observations of the *)
(* inputs and of the geometry at the time of the event; the handlers above  *)
(* never read them.                                                         *)

NoPoint == Point(-1, -1)
\* lastStripPress: the last left press on the strip (time, pos), whether it was taken
\* for a double click, whether no strip press came in the doubleClickInterval before
\* it (fresh), and the time and position of the last strip press that was not taken
\* for a double click (ref, refPos; the construction time and the origin before one)
\* later: the button the latest left press in the top band since then landed on;
\* "None" if there was no such press or it landed on no button
NoPress == [time |-> -1, pos |-> NoPoint, wasDouble |-> FALSE, fresh |-> FALSE,
            ref |-> 0, refPos |-> Point(0, 0), later |-> "None"]

\* the visible button whose rectangle holds the point, or "None"
Hit(local) ==
    IF \E k \in DOMAIN m_buttons : Contains(buttonRect(k), local)
    THEN CHOOSE k \in DOMAIN m_buttons : Contains(buttonRect(k), local)
    ELSE "None"

\* the draggable titlebar strip: in the top band, below the near-top-edge sub-band,
\* between the left and right margins and outside every visible button
OnStrip(local) ==
    LET mg == margins("Full")
        surfaceRect == windowContentGeometry
    IN  /\ local.y <= RectTop(surfaceRect) + mg.top
        /\ local.y > RectTop(surfaceRect) + mg.bottom
        /\ local.x > RectLeft(surfaceRect) + mg.left
        /\ local.x <= RectRight(surfaceRect) - mg.right
        /\ Hit(local) = "None"

\* gap, dist, prevDouble, refGap: on a left press on the strip, the time since the
\* previous such press and its distance (the larger of |dx| and |dy|; both -1 if
\* there was none), whether it was itself taken for a double click, and the time
\* since the last strip press not taken for one;
\* pressIn: on a left release, where the press it ends started;
\* rightPressed: the right button went down with this event;
\* pressBetween: on a left press on the strip, the button the left press in the top
\* band just before it landed on, if any (see NoPress);
\* area: the area handleMouse found the pointer in;
\* armedBefore: on a left release, the button that was armed when it arrived;
\* noColorKey, noLayoutKey: the fetch reply lacked the color-scheme key, lacked the
\* button-layout key or had it empty;
\* replyOk: the fetch reply was valid and not empty; closeLast: the layout string
\* handed to updateTitlebarLayout has no "close" left of its one ':' and ends in the
\* token "close"
NoEvent == [kind |-> "none", local |-> NoPoint, b |-> {}, state |-> "",
            leftClicked |-> FALSE, leftReleased |-> FALSE, hit |-> "None",
            onStrip |-> FALSE, pressIn |-> "None",
            gap |-> -1, dist |-> -1, prevDouble |-> FALSE, refGap |-> -1,
            reqs |-> <<>>, cursor |-> "", repaints |-> 0, handled |-> FALSE,
            segments |-> 0, example |-> FALSE, viaReply |-> FALSE,
            replyOk |-> FALSE, closeLast |-> FALSE, rightPressed |-> FALSE,
            armedBefore |-> "None", pressBetween |-> "None",
            noColorKey |-> FALSE, noLayoutKey |-> FALSE, area |-> ""]

HasReq(reqs, name) == \E i \in 1..Len(reqs) : reqs[i].req = name
CountReq(reqs, name) == Cardinality({i \in 1..Len(reqs) : reqs[i].req = name})

-----------------------------------------------------------------------------
(* Initial state: the members as the constructor leaves them *)

\* a default-constructed QPixmap: size (0, 0)
NullPixmap == [size |-> <<0, 0>>, color |-> "none"]

Init ==
    /\ m_placement = "Right"
    /\ m_buttons = [k \in {"Close"} |-> 1]
    /\ m_clicking = "None"
    /\ m_hoveredButtons = {}
    /\ m_lastButtonClick = 0
    /\ m_lastButtonClickPosition = Point(0, 0)
    /\ m_colors = "empty"
    /\ m_fontBold = FALSE
    /\ m_mouseButtons = {}
    /\ m_shadowPixmap = NullPixmap
    /\ active = TRUE
    /\ maximized = FALSE
    /\ tilingStates = {}
    /\ surfaceSize = <<300, 200>>
    /\ now = 0
    /\ phase = "constructed"
    /\ fetch = "none"
    /\ lastEvent = NoEvent
    /\ pressIn = "None"
    /\ lastStripPress = NoPress

-----------------------------------------------------------------------------
(* Settings model *)

updateColors(useDarkColors) == IF useDarkColors THEN "dark" ELSE "light"

\* the timer-deferred initConfiguration: sends ReadAll, connects SettingChanged,
\* then updateColors(false) and updateIcons()
InitConfiguration ==
    /\ phase = "constructed"
    /\ phase' = "initialized"
    /\ fetch' = "pending"
    /\ m_colors' = updateColors(FALSE)
    /\ lastEvent' = [NoEvent EXCEPT !.kind = "init", !.repaints = 2]
    /\ UNCHANGED << m_placement, m_buttons, m_fontBold, m_shadowPixmap, interactionVars, hostVars,
                    now, spanVars >>

\* the value of a key the reply does not hold: an invalid QVariant
MissingKey == -1

\* QVariant::toUInt: 0 for an invalid QVariant
toUInt(v) == IF v = MissingKey THEN 0 ELSE v

\* the finished-callback without its tests of the reply
onSettingsReceived_Unchecked(cfg, reply) ==
    LET u == IF reply.buttonLayout # <<>>
             THEN updateTitlebarLayout(cfg, reply.buttonLayout)
             ELSE [placement |-> cfg.placement, buttons |-> cfg.buttons,
                   applied |-> FALSE]
    IN  [placement |-> u.placement, buttons |-> u.buttons,
         colors |-> updateColors(toUInt(reply.colorScheme) = 1),
         fontBold |-> cfg.fontBold \/ reply.boldFont,
         repaints |-> 1 + (IF u.applied THEN 1 ELSE 0)]

\* what the finished-callback of the ReadAll call does to the configuration;
\* reply = [valid, empty, colorScheme, buttonLayout, boldFont]; a key the reply lacks
\* reads as MissingKey (color-scheme) or as the empty string (button-layout)
onSettingsReceived(cfg, reply) ==
    IF reply.valid /\ ~reply.empty
    THEN LET u == IF reply.buttonLayout # <<>>
                  THEN updateTitlebarLayout(cfg, reply.buttonLayout)
                  ELSE [placement |-> cfg.placement, buttons |-> cfg.buttons,
                        applied |-> FALSE]
         IN  [placement |-> u.placement, buttons |-> u.buttons,
              colors |-> updateColors(toUInt(reply.colorScheme) = 1),
              fontBold |-> cfg.fontBold \/ reply.boldFont,
              repaints |-> 1 + (IF u.applied THEN 1 ELSE 0)]
    ELSE [placement |-> cfg.placement, buttons |-> cfg.buttons, colors |-> cfg.colors,
          fontBold |-> cfg.fontBold, repaints |-> 0]

\* the slot settingChanged(group, key, value); n = [group, key, layout, colorScheme]
settingChanged(cfg, n) ==
    IF n.group = "org.gnome.desktop.wm.preferences" /\ n.key = "button-layout"
    THEN LET u == updateTitlebarLayout(cfg, n.layout)
         IN  [placement |-> u.placement, buttons |-> u.buttons, colors |-> cfg.colors,
              fontBold |-> cfg.fontBold, repaints |-> IF u.applied THEN 1 ELSE 0]
    ELSE IF n.group = "org.freedesktop.appearance" /\ n.key = "color-scheme"
    THEN [placement |-> cfg.placement, buttons |-> cfg.buttons,
          colors |-> updateColors(n.colorScheme = 1),
          fontBold |-> cfg.fontBold, repaints |-> 1]
    ELSE [placement |-> cfg.placement, buttons |-> cfg.buttons, colors |-> cfg.colors,
          fontBold |-> cfg.fontBold, repaints |-> 0]

CurrentCfg == [placement |-> m_placement, buttons |-> m_buttons, colors |-> m_colors,
               fontBold |-> m_fontBold]

\* the string reads  <left, without "close"> : <tokens> , close
EndsWithClose(layout) ==
    /\ Len(layout) >= 2
    /\ layout[Len(layout)] = "close"
    /\ layout[Len(layout) - 1] \in {":", ","}
    /\ Cardinality({i \in 1..Len(layout) : layout[i] = ":"}) = 1
    /\ \A i \in 1..Len(layout) :
           layout[i] = "close" => \E j \in 1..(i - 1) : layout[j] = ":"

SettingsReply(reply) ==
    /\ fetch = "pending"
    /\ fetch' = "done"
    /\ LET r == onSettingsReceived(CurrentCfg, reply)
       IN  /\ m_placement' = r.placement
           /\ m_buttons' = r.buttons
           /\ m_colors' = r.colors
           /\ m_fontBold' = r.fontBold
           /\ lastEvent' = [NoEvent EXCEPT !.kind = "layout", !.viaReply = TRUE,
                               !.repaints = r.repaints,
                               !.segments = Len(Split(reply.buttonLayout, ":")),
                               !.example = (reply.valid /\ ~reply.empty
                                            /\ reply.buttonLayout = SpecExampleLayout),
                               !.replyOk = (reply.valid /\ ~reply.empty),
                               !.noColorKey = (reply.colorScheme = MissingKey),
                               !.noLayoutKey = (reply.buttonLayout = << >>),
                               !.closeLast = (reply.valid /\ ~reply.empty
                                              /\ EndsWithClose(reply.buttonLayout))]
    /\ UNCHANGED << m_shadowPixmap, interactionVars, hostVars, now, phase, spanVars >>

SettingChanged(n) ==
    /\ phase = "initialized"
    /\ LET r == settingChanged(CurrentCfg, n)
           isLayout == n.group = "org.gnome.desktop.wm.preferences"
                       /\ n.key = "button-layout"
       IN  /\ m_placement' = r.placement
           /\ m_buttons' = r.buttons
           /\ m_colors' = r.colors
           /\ m_fontBold' = r.fontBold
           /\ lastEvent' = [NoEvent EXCEPT
                               !.kind = IF isLayout THEN "layout" ELSE "setting",
                               !.repaints = r.repaints,
                               !.segments = IF isLayout THEN Len(Split(n.layout, ":")) ELSE 0,
                               !.example = (isLayout /\ n.layout = SpecExampleLayout),
                               !.closeLast = (isLayout /\ EndsWithClose(n.layout))]
    /\ UNCHANGED << m_shadowPixmap, interactionVars, hostVars, now, phase, fetch, spanVars >>

LayoutNotification(layout) ==
    [group |-> "org.gnome.desktop.wm.preferences", key |-> "button-layout",
     layout |-> layout, colorScheme |-> 0]
ColorNotification(scheme) ==
    [group |-> "org.freedesktop.appearance", key |-> "color-scheme",
     layout |-> <<>>, colorScheme |-> scheme]
FontNotification ==
    [group |-> "org.gnome.desktop.wm.preferences", key |-> "titlebar-font",
     layout |-> <<>>, colorScheme |-> 0]

ColorSchemes == {0, 1, 2}

-----------------------------------------------------------------------------
(* Host: window state and clock *)

HostConfigure(mx, tiled) ==
    /\ << mx, tiled >> # << maximized, tilingStates >>
    /\ maximized' = mx
    /\ tilingStates' = tiled
    /\ lastEvent' = [NoEvent EXCEPT !.kind = "configure"]
    /\ UNCHANGED << configVars, m_shadowPixmap, interactionVars, active, surfaceSize, now,
                    phase, fetch, spanVars >>

HostActivate(a) ==
    /\ a # active
    /\ active' = a
    /\ lastEvent' = [NoEvent EXCEPT !.kind = "activate"]
    /\ UNCHANGED << configVars, m_shadowPixmap, interactionVars, maximized, tilingStates,
                    surfaceSize, now, phase, fetch, spanVars >>

HostResize(size) ==
    /\ size # surfaceSize
    /\ surfaceSize' = size
    /\ lastEvent' = [NoEvent EXCEPT !.kind = "resize"]
    /\ UNCHANGED << configVars, m_shadowPixmap, interactionVars, active, maximized,
                    tilingStates, now, phase, fetch, spanVars >>

\* paint, as far as the shadow goes: shadows are drawn for an active window that is
\* neither maximized nor tiled
shadowDrawn == active /\ ~(maximized \/ tilingStates # {})

RectSize(r) == << r.w, r.h >>

\* the source of the shadow is drawn with the border colour of the palette in use
computeShadow(size) == [size |-> size, color |-> m_colors]

\* paint that renders the shadow anew every time it draws it
paintShadow_Always(pixmap, size) ==
    IF shadowDrawn THEN computeShadow(size) ELSE pixmap

\* m_shadowPixmap after paint
paintShadow(pixmap, size) ==
    IF shadowDrawn /\ pixmap.size # size THEN computeShadow(size) ELSE pixmap

Paint ==
    /\ m_shadowPixmap' = paintShadow(m_shadowPixmap, RectSize(windowContentGeometry))
    /\ lastEvent' = [NoEvent EXCEPT !.kind = "paint"]
    /\ UNCHANGED << configVars, interactionVars, hostVars, now, phase, fetch, spanVars >>

Tick(dt) ==
    /\ now + dt <= MaxTime
    /\ now' = now + dt
    /\ lastEvent' = [NoEvent EXCEPT !.kind = "tick"]
    /\ UNCHANGED << configVars, m_shadowPixmap, interactionVars, hostVars, phase, fetch,
                    spanVars >>

-----------------------------------------------------------------------------
(* Input handlers *)

\* handleMouse on one event; with track, the observation lastStripPress.later is kept
HandleMouseObserved(local, b, track) ==
    \E st \in {handleMouse(CurrentSt, local, b)}, hit \in {Hit(local)},
       strip \in {OnStrip(local)}, clicked \in {isLeftClicked(b)},
       released \in {isLeftReleased(b)} :
    \E stripPress \in {clicked /\ strip}, double \in {HasReq(st.reqs, "toggleMaximize")} :
        /\ m_clicking' = st.clicking
        /\ m_hoveredButtons' = st.hovered
        /\ m_lastButtonClick' = st.lastClick
        /\ m_lastButtonClickPosition' = st.lastPos
        /\ m_mouseButtons' = b
        /\ lastEvent' = [NoEvent EXCEPT !.kind = "mouse", !.local = local, !.b = b,
                            !.leftClicked = clicked, !.leftReleased = released,
                            !.hit = hit, !.onStrip = strip,
                            !.pressIn = IF released THEN pressIn ELSE "None",
                            !.gap = IF stripPress /\ lastStripPress # NoPress
                                    THEN now - lastStripPress.time ELSE -1,
                            !.dist = IF stripPress /\ lastStripPress # NoPress
                                     THEN Max(Abs(lastStripPress.pos.x - local.x),
                                              Abs(lastStripPress.pos.y - local.y))
                                     ELSE -1,
                            !.prevDouble = (stripPress /\ lastStripPress.wasDouble),
                            !.refGap = IF stripPress /\ lastStripPress # NoPress
                                       THEN now - lastStripPress.ref ELSE -1,
                            !.rightPressed = ("Right" \in b /\ "Right" \notin m_mouseButtons),
                            !.area = mouseArea(local, windowContentGeometry,
                                               margins("Full")),
                            !.armedBefore = IF released THEN m_clicking ELSE "None",
                            !.pressBetween = IF stripPress THEN lastStripPress.later
                                             ELSE "None",
                            !.reqs = st.reqs, !.cursor = st.cursor,
                            !.repaints = st.repaints,
                            !.handled = FALSE]      \* handleMouse returns false
        /\ pressIn' = IF clicked
                      THEN (IF hit # "None" THEN hit
                            ELSE IF strip THEN "Strip" ELSE "Other")
                      ELSE IF released THEN "None" ELSE pressIn
        /\ lastStripPress' = IF stripPress
                             THEN [time |-> now, pos |-> local,
                                   wasDouble |-> double,
                                   fresh |-> (lastStripPress = NoPress
                                              \/ now - lastStripPress.time
                                                   > doubleClickInterval),
                                   ref |-> IF double THEN lastStripPress.ref ELSE now,
                                   refPos |-> IF double THEN lastStripPress.refPos
                                              ELSE local,
                                   later |-> "None"]
                             ELSE IF /\ track /\ clicked /\ lastStripPress # NoPress
                                     /\ local.y <= RectTop(windowContentGeometry)
                                                      + margins("Full").top
                             THEN [lastStripPress EXCEPT !.later = hit]
                             ELSE lastStripPress
        /\ UNCHANGED << configVars, m_shadowPixmap, hostVars, now, phase, fetch >>

HandleMouse(local, b) == HandleMouseObserved(local, b, FALSE)

HandleTouch(local, state) ==
    \E r \in {handleTouch(CurrentSt, local, state)} :
        /\ lastEvent' = [NoEvent EXCEPT !.kind = "touch", !.local = local, !.state = state,
                            !.hit = Hit(local), !.onStrip = OnStrip(local),
                            !.reqs = r.st.reqs, !.repaints = r.st.repaints,
                            !.handled = r.handled]
        /\ UNCHANGED << configVars, m_shadowPixmap, interactionVars, hostVars, now, phase,
                        fetch, spanVars >>

-----------------------------------------------------------------------------
(* Specification of the settings model: the deferred initialisation, the    *)
(* fetch reply and change notifications carrying arbitrary layout strings   *)

LayoutReplies ==
    {[valid |-> TRUE, empty |-> FALSE, colorScheme |-> 0, buttonLayout |-> l,
      boldFont |-> FALSE] : l \in Layouts}
    \cup {[valid |-> v, empty |-> e, colorScheme |-> 0, buttonLayout |-> NoCloseLayout,
           boldFont |-> FALSE] : v \in BOOLEAN, e \in BOOLEAN}

LayoutReply == \E reply \in LayoutReplies : SettingsReply(reply)

LayoutChanged == \E l \in Layouts : SettingChanged(LayoutNotification(l))

NextLayout ==
    \/ InitConfiguration
    \/ LayoutReply
    \/ LayoutChanged

SpecLayout == Init /\ [][NextLayout]_vars

-----------------------------------------------------------------------------
(* Specification of the pointer and touch state machine: events at points   *)
(* of every region of the 300x200 surface, window-state changes and a few   *)
(* layouts delivered between events                                         *)

CloseCentre == Point(266, 30)     \* centre of the default Close rectangle (254,18,24,24)
TopEdgePoint == Point(150, 5)
StripPoint == Point(150, 20)

RightBandPoint == Point(295, 30)   \* beyond the right margin; inside buttonRect at position 0

Points == {CloseCentre, StripPoint, Point(230, 30), RightBandPoint, Point(150, 100)}

ButtonStates == {{}, {"Left"}, {"Right"}}

TouchStates == {"Pressed", "Released"}

PointerLayouts == {GnomeDefaultLayout, AllRightLayout, NoCloseLayout}

WindowStates == {<<FALSE, {}>>, <<TRUE, {}>>}

MouseEvent == \E local \in Points, b \in ButtonStates : HandleMouse(local, b)

Configure == \E w \in WindowStates : HostConfigure(w[1], w[2])

PointerReply ==
    \E l \in PointerLayouts :
        SettingsReply([valid |-> TRUE, empty |-> FALSE, colorScheme |-> 1,
                       buttonLayout |-> l, boldFont |-> FALSE])

Next ==
    \/ InitConfiguration
    \/ PointerReply
    \/ Configure
    \/ MouseEvent

Spec == Init /\ [][Next]_vars

(* The same with touch events, and fewer mouse events *)

TouchPoints == {CloseCentre, StripPoint, Point(230, 30), RightBandPoint, Point(150, 100)}

TouchMouseEvent ==
    \E local \in {CloseCentre, RightBandPoint}, b \in {{}, {"Left"}} : HandleMouse(local, b)

TouchEvent == \E local \in TouchPoints, state \in TouchStates : HandleTouch(local, state)

NextTouch ==
    \/ InitConfiguration
    \/ PointerReply
    \/ Configure
    \/ TouchMouseEvent
    \/ TouchEvent

SpecTouch == Init /\ [][NextTouch]_vars


-----------------------------------------------------------------------------
(* Specification of click timing: presses and releases of the left button   *)
(* on and around the titlebar strip of the default configuration, with the  *)
(* clock advancing between them                                             *)

NearPoint == Point(155, 25)      \* doubleClickDistance away from StripPoint on both axes
FarPoint == Point(156, 20)       \* one unit further on the x axis

ClickPoints == {StripPoint, NearPoint, FarPoint, TopEdgePoint}

TickSteps == {300, 500, 501}

ClickEvent == \E local \in ClickPoints, b \in {{}, {"Left"}} : HandleMouse(local, b)

ClockTick == \E dt \in TickSteps : Tick(dt)

NextClick ==
    \/ ClickEvent
    \/ ClockTick

SpecClick == Init /\ [][NextClick]_vars

-----------------------------------------------------------------------------
(* Specification of presses on a button between presses on the strip, with  *)
(* the clock                                                                *)

NextButtonPress ==
    \/ \E local \in {StripPoint, FarPoint, CloseCentre}, b \in {{}, {"Left"}} :
           HandleMouseObserved(local, b, TRUE)
    \/ \E dt \in {300, 501} : Tick(dt)

SpecButtonPress == Init /\ [][NextButtonPress]_vars

-----------------------------------------------------------------------------
(* Specification of the geometry engine: every combination of maximized and *)
(* tiled edges, two surface sizes, and layouts of every shape the parser    *)
(* tells apart                                                              *)

CloseFirstLayout == <<":", "close", ",", "minimize">>
GapLayout == <<":", "minimize", ",", "appmenu", ",", "close">>
LeftPairLayout == <<"close", ",", "maximize", ":", "appmenu">>

GeometryLayouts == {GnomeDefaultLayout, AllRightLayout, AllLeftLayout, NoCloseLayout,
                    SpecExampleLayout, CloseFirstLayout, GapLayout, LeftPairLayout}

AllWindowStates == {<<mx, tiled>> : mx \in BOOLEAN, tiled \in SUBSET Edges}

SurfaceSizes == {<<300, 200>>, <<200, 150>>}

GeometryReply ==
    \E l \in GeometryLayouts :
        SettingsReply([valid |-> TRUE, empty |-> FALSE, colorScheme |-> 0,
                       buttonLayout |-> l, boldFont |-> FALSE])

GeometryChanged == \E l \in GeometryLayouts : SettingChanged(LayoutNotification(l))

GeometryConfigure == \E w \in AllWindowStates : HostConfigure(w[1], w[2])

GeometryResize == \E size \in SurfaceSizes : HostResize(size)

NextGeometry ==
    \/ InitConfiguration
    \/ GeometryReply
    \/ GeometryChanged
    \/ GeometryConfigure
    \/ GeometryResize

SpecGeometry == Init /\ [][NextGeometry]_vars

-----------------------------------------------------------------------------
(* Claims C1 .. C10 *)

DefaultGeometry ==
    /\ m_placement = "Right"
    /\ m_buttons = [k \in {"Close"} |-> 1]
    /\ ~maximized
    /\ tilingStates = {}
    /\ surfaceSize = <<300, 200>>

IsMouse == lastEvent.kind = "mouse"
IsTouch == lastEvent.kind = "touch"

\* a left press on the titlebar strip that had a predecessor
StripPressAfterPress ==
    IsMouse /\ lastEvent.leftClicked /\ lastEvent.onStrip /\ lastEvent.gap >= 0

TakenForDouble == lastEvent.reqs = << Req("toggleMaximize") >>
TakenForSingle == lastEvent.reqs = << Req("move") >>

\* C1: a left press inside the rectangle of the (visible) Close button emits nothing,
\* nor does any event with the left button still held, and the left release inside
\* that rectangle which ends a press started inside it emits exactly one close
\* request and nothing else; so press and release on Close give one close, no move.
C1_CloseClickFires ==
    (IsMouse /\ lastEvent.hit = "Close") =>
        /\ lastEvent.leftClicked => lastEvent.reqs = <<>>
        /\ ("Left" \in lastEvent.b /\ ~lastEvent.leftClicked) => lastEvent.reqs = <<>>
        /\ (lastEvent.leftReleased /\ lastEvent.pressIn = "Close")
               => lastEvent.reqs = << Req("close") >>

\* the end-to-end case: default configuration, 300x200, not maximized, release at the
\* centre of the Close rectangle after a press on Close
C1_Witness ==
    /\ IsMouse /\ lastEvent.leftReleased /\ lastEvent.pressIn = "Close"
    /\ lastEvent.local = CloseCentre /\ lastEvent.hit = "Close"
    /\ DefaultGeometry
    /\ lastEvent.reqs = << Req("close") >>

\* C2: a mouse event emits a close request only if it is a left release inside the
\* Close rectangle that ends a press started inside the Close rectangle; so after a
\* press on Close and a release outside it, nothing closes the window until a new
\* left press inside Close.
C2_NoCloseWithoutPressInside ==
    (IsMouse /\ HasReq(lastEvent.reqs, "close")) =>
        /\ lastEvent.leftReleased
        /\ lastEvent.hit = "Close"
        /\ lastEvent.pressIn = "Close"

\* a press on Close released outside Close
C2_Witness ==
    /\ IsMouse /\ lastEvent.leftReleased /\ lastEvent.pressIn = "Close"
    /\ lastEvent.hit # "Close"
    /\ lastEvent.reqs = <<>>
    /\ m_clicking = "None"

\* C3 as stated: in the default geometry a left press at (150, 5) with no strip press
\* in the 500 ms before it emits exactly one move request and no resize request, and
\* its release emits nothing.
C3_Original ==
    (IsMouse /\ lastEvent.local = TopEdgePoint /\ DefaultGeometry
       /\ (lastStripPress = NoPress \/ now - lastStripPress.time > doubleClickInterval)) =>
        /\ lastEvent.leftClicked => lastEvent.reqs = << Req("move") >>
        /\ lastEvent.leftReleased => lastEvent.reqs = <<>>

\* C3 amended: in the default geometry (150, 5) is in the top resize sub-band: a left
\* press there emits exactly one resize request for the top edge and no move; a left
\* press at (150, 20), on the strip, with no strip press in the 500 ms before it,
\* emits exactly one move request and no resize; the releases emit nothing.
C3_Amended ==
    (IsMouse /\ DefaultGeometry) =>
        /\ lastEvent.local = TopEdgePoint =>
              /\ lastEvent.leftClicked => lastEvent.reqs = << Resize({"Top"}) >>
              /\ lastEvent.leftReleased => lastEvent.reqs = <<>>
        /\ lastEvent.local = StripPoint =>
              /\ (lastEvent.leftClicked /\ lastStripPress.fresh)
                     => lastEvent.reqs = << Req("move") >>
              /\ lastEvent.leftReleased => lastEvent.reqs = <<>>

\* the release at (150, 20) right after a fresh press there
C3_Witness ==
    /\ IsMouse /\ DefaultGeometry /\ lastEvent.local = StripPoint
    /\ lastEvent.leftReleased /\ lastEvent.pressIn = "Strip"
    /\ lastStripPress.fresh /\ lastStripPress.pos = StripPoint /\ lastStripPress.time = now
    /\ ~lastStripPress.wasDouble

\* C4: a left press on the strip is taken either for a double click (one toggle-
\* maximize request) or for a single click (one move request).  At the coordinate of
\* the previous strip press it is a double click exactly when at most 500 ms passed
\* (so at 300 ms, not at 600 ms); when the previous press was a single click, it is
\* a double click exactly when at most 500 ms passed and the two presses are at most
\* 5 units apart on each axis.
C4_DoubleClickWindow ==
    StripPressAfterPress =>
        /\ TakenForDouble \/ TakenForSingle
        /\ lastEvent.dist = 0 => (TakenForDouble <=> lastEvent.gap <= 500)
        /\ ~lastEvent.prevDouble =>
              (TakenForDouble <=> (lastEvent.gap <= 500 /\ lastEvent.dist <= 5))

\* the second press, 300 ms after the first at the same point, taken for a double click
C4_Witness ==
    /\ StripPressAfterPress /\ lastEvent.gap = 300 /\ lastEvent.dist = 0
    /\ ~lastEvent.prevDouble
    /\ TakenForDouble

\* C5 as stated: a press taken for a double click leaves lastClickTime and
\* lastClickPosition unchanged, so these are always the time and position of the last
\* strip press that was not a double click, and a third press at the same point
\* 300 ms after the second and 600 ms after the first is not a double click.
C5_Original ==
    /\ m_lastButtonClick = lastStripPress.ref
    /\ m_lastButtonClickPosition = lastStripPress.refPos
    /\ (StripPressAfterPress /\ lastEvent.prevDouble /\ lastEvent.dist = 0
          /\ lastEvent.gap = 300 /\ lastEvent.refGap = 600) => ~TakenForDouble

\* C5 amended: a press taken for a double click leaves lastClickPosition unchanged
\* but sets lastClickTime to its own time: lastClickTime is the time of the last strip
\* press of any kind, and a third press at the same point within 500 ms of the second
\* is again a double click (double clicks chain).
C5_Amended ==
    /\ m_lastButtonClick = IF lastStripPress = NoPress THEN 0 ELSE lastStripPress.time
    /\ m_lastButtonClickPosition = lastStripPress.refPos
    /\ (StripPressAfterPress /\ lastEvent.prevDouble /\ lastEvent.dist = 0
          /\ lastEvent.gap <= doubleClickInterval) => TakenForDouble

\* the third press of three, 300 ms apart at one point
C5_Witness ==
    /\ StripPressAfterPress /\ lastEvent.prevDouble /\ lastEvent.dist = 0
    /\ lastEvent.gap = 300 /\ lastEvent.refGap = 600
    /\ TakenForDouble
    /\ m_lastButtonClick = now

\* C6 as stated: after "close:minimize,maximize" placement is Left, Close is at
\* position 1, and the right side's buttons are kept: Maximize at 1, Minimize at 2.
C6_Original ==
    lastEvent.example =>
        /\ m_placement = "Left"
        /\ HasButton(m_buttons, "Close") /\ m_buttons["Close"] = 1
        /\ HasButton(m_buttons, "Maximize") /\ m_buttons["Maximize"] = 1
        /\ HasButton(m_buttons, "Minimize") /\ m_buttons["Minimize"] = 2

\* C6 amended: after "close:minimize,maximize" placement is Left and the configuration
\* holds Close at position 1 alone: the buttons of the right side are dropped.
C6_Amended ==
    lastEvent.example =>
        /\ m_placement = "Left"
        /\ m_buttons = [k \in {"Close"} |-> 1]

C6_Witness == lastEvent.example /\ lastEvent.kind = "layout" /\ m_placement = "Left"

\* C7: in every reachable state Close is present in the button map.
C7_CloseAlwaysPresent == HasButton(m_buttons, "Close")

\* C8: in every reachable state the positions in the button map are exactly 1..n for
\* the n buttons present.
C8_PositionsDense ==
    {m_buttons[k] : k \in DOMAIN m_buttons} = 1..Cardinality(DOMAIN m_buttons)

\* C9: a layout update, by the fetch reply or by a change notification, whose string
\* does not split into exactly two ':'-separated segments leaves the button map and
\* the placement as they were.
C9_BadLayoutIgnored ==
    [][(lastEvent'.kind = "layout" /\ lastEvent'.segments # 2)
          => (m_buttons' = m_buttons /\ m_placement' = m_placement)]_vars

\* a fetch reply with a three-segment or one-segment string, arriving after a change
\* notification had moved the buttons to the left
C9_Witness ==
    /\ lastEvent.kind = "layout" /\ lastEvent.viaReply /\ lastEvent.segments # 2
    /\ m_placement = "Left"

\* C10: after a mouse or touch event, a button absent from the button map got no
\* action from the event (close for Close, minimize for Minimize, the toggle-maximize
\* of a touch or of a left release for Maximize), and after a mouse event it is
\* neither armed nor hovered.
ActionOf(k) == IF k = "Close" THEN "close"
               ELSE IF k = "Minimize" THEN "minimize" ELSE "toggleMaximize"

C10_AbsentButtonNotDispatched ==
    \A k \in Buttons \ DOMAIN m_buttons :
        /\ (IsTouch \/ (IsMouse /\ (k = "Maximize" => lastEvent.leftReleased)))
              => ~HasReq(lastEvent.reqs, ActionOf(k))
        /\ IsMouse => (m_clicking # k /\ k \notin m_hoveredButtons)

-----------------------------------------------------------------------------
(* Specification of the start-up: the deferred initialisation, a fetch      *)
(* reply that is valid, invalid or empty and may come late or never, change *)
(* notifications, and pointer events arriving at any moment in between      *)

StartupLayouts == {<< >>, GnomeDefaultLayout, AllLeftLayout}

StartupReplies ==
    {[valid |-> v, empty |-> e, colorScheme |-> c, buttonLayout |-> l,
      boldFont |-> FALSE] : v \in BOOLEAN, e \in BOOLEAN, c \in {1, MissingKey},
                            l \in StartupLayouts}

StartupReply == \E reply \in StartupReplies : SettingsReply(reply)

StartupChanged ==
    \/ \E l \in {AllLeftLayout, NoCloseLayout, <<"close">>} :
           SettingChanged(LayoutNotification(l))
    \/ \E scheme \in ColorSchemes : SettingChanged(ColorNotification(scheme))

StartupMouse ==
    \E local \in {CloseCentre, StripPoint}, b \in {{}, {"Left"}} : HandleMouse(local, b)

NextStartup ==
    \/ InitConfiguration
    \/ StartupReply
    \/ StartupChanged
    \/ StartupMouse

SpecStartup == Init /\ [][NextStartup]_vars

-----------------------------------------------------------------------------
(* Specification of painting: paints between changes of the colour scheme,  *)
(* of the window state, of the activation and of the surface size           *)

PaintWindowStates == {<<FALSE, {}>>, <<TRUE, {}>>, <<FALSE, {"Left"}>>}

PaintReply ==
    \E scheme \in ColorSchemes :
        SettingsReply([valid |-> TRUE, empty |-> FALSE, colorScheme |-> scheme,
                       buttonLayout |-> GnomeDefaultLayout, boldFont |-> FALSE])

PaintColorChanged == \E scheme \in ColorSchemes : SettingChanged(ColorNotification(scheme))

PaintConfigure == \E w \in PaintWindowStates : HostConfigure(w[1], w[2])

PaintActivate == \E a \in BOOLEAN : HostActivate(a)

PaintResize == \E size \in SurfaceSizes : HostResize(size)

NextPaint ==
    \/ InitConfiguration
    \/ PaintReply
    \/ PaintColorChanged
    \/ PaintConfigure
    \/ PaintActivate
    \/ PaintResize
    \/ Paint

SpecPaint == Init /\ [][NextPaint]_vars

-----------------------------------------------------------------------------
(* Specification of the regions of the surface: pointer events at the       *)
(* corners, in the shadows and in the resize bands of the 300x200 surface,  *)
(* in every kind of window state                                            *)

RegionWindowStates ==
    {<<FALSE, {}>>, <<TRUE, {}>>, <<FALSE, {"Left"}>>, <<FALSE, {"Right"}>>,
     <<FALSE, {"Top"}>>, <<FALSE, {"Bottom"}>>}

\* the corners of the surface, points of the near-top-edge sub-band, of the shadows on
\* each side, of the border next to the shadow, and of the middle
RegionPoints ==
    {Point(0, 0), Point(299, 0), Point(0, 199), Point(299, 199),
     Point(5, 5), Point(295, 5), TopEdgePoint,
     Point(5, 100), Point(295, 100), Point(150, 195), Point(10, 100),
     Point(150, 100)}

NextRegions ==
    \/ InitConfiguration
    \/ \E w \in RegionWindowStates : HostConfigure(w[1], w[2])
    \/ \E local \in RegionPoints, b \in {{}, {"Left"}} : HandleMouse(local, b)

SpecRegions == Init /\ [][NextRegions]_vars

-----------------------------------------------------------------------------
(* Specification of a crowded titlebar: three buttons on the right of a     *)
(* surface 120 wide, where the leftmost of them reaches into the left       *)
(* margin, and of one 300 wide                                              *)

NarrowSize == <<120, 150>>

\* on the narrow surface (5, 30) is in the rectangle of Minimize, (41, 30) in that of
\* Maximize and (86, 30) in that of Close; (60, 100) is in the middle
NarrowPoints == {Point(5, 30), Point(41, 30), Point(86, 30), Point(60, 100)}

NextNarrow ==
    \/ InitConfiguration
    \/ SettingsReply([valid |-> TRUE, empty |-> FALSE, colorScheme |-> 0,
                      buttonLayout |-> AllRightLayout, boldFont |-> FALSE])
    \/ \E w \in WindowStates : HostConfigure(w[1], w[2])
    \/ \E size \in {<<300, 200>>, NarrowSize} : HostResize(size)
    \/ \E local \in NarrowPoints, b \in {{}, {"Left"}} : HandleMouse(local, b)

SpecNarrow == Init /\ [][NextNarrow]_vars

-----------------------------------------------------------------------------
(* Claims C11 .. C30 *)

MarginKinds == {"Full", "ShadowsExcluded", "ShadowsOnly"}

\* C11: when the window is neither maximized nor tiled on any edge, margins(Full) is
\* shadow width + border width (10 + 1) on the left, right and bottom, and titlebar
\* height + shadow width + border width (38 + 10 + 1) on top.
C11_FullMarginsUntiled ==
    (~maximized /\ tilingStates = {}) =>
        /\ margins("Full") = Margins(ceShadowsWidth + ceWindowBorderWidth,
                                     ceTitlebarHeight + ceShadowsWidth + ceWindowBorderWidth,
                                     ceShadowsWidth + ceWindowBorderWidth,
                                     ceShadowsWidth + ceWindowBorderWidth)
        /\ margins("Full") = Margins(11, 49, 11, 11)

\* the window is back to untiled and unmaximized after having been tiled or maximized
C11_Witness ==
    /\ ~maximized /\ tilingStates = {}
    /\ lastEvent.kind = "configure"
    /\ margins("Full").top = 49

\* C12 as stated: the margins(Full) component of every tiled edge, Top included, is 0,
\* whether or not the window is maximized.
C12_Original ==
    /\ "Left" \in tilingStates => margins("Full").left = 0
    /\ "Right" \in tilingStates => margins("Full").right = 0
    /\ "Bottom" \in tilingStates => margins("Full").bottom = 0
    /\ "Top" \in tilingStates => margins("Full").top = 0

\* C12 amended: the margins(Full) component of a tiled Left, Right or Bottom edge is
\* 0, and the top margin of a window tiled at the Top is the titlebar height (38,
\* without shadow and border), whether or not the window is maximized.
C12_Amended ==
    /\ "Left" \in tilingStates => margins("Full").left = 0
    /\ "Right" \in tilingStates => margins("Full").right = 0
    /\ "Bottom" \in tilingStates => margins("Full").bottom = 0
    /\ "Top" \in tilingStates => margins("Full").top = ceTitlebarHeight

\* tiled at the top and on one side only, not maximized: the untiled edges keep
\* their margins
C12_Witness ==
    /\ ~maximized /\ tilingStates = {"Top", "Left"}
    /\ margins("Full") = Margins(0, 38, 11, 11)

\* C13: when the window is maximized, for every margin kind and every set of tiled
\* edges, the left, right and bottom margins are 0 and the top margin is the titlebar
\* height (38) for Full and ShadowsExcluded and 0 for ShadowsOnly.
C13_MaximizedMargins ==
    maximized =>
        \A kind \in MarginKinds :
            margins(kind) = Margins(0, IF kind = "ShadowsOnly" THEN 0 ELSE 38, 0, 0)

\* maximized while some edges are tiled and others are not
C13_Witness ==
    /\ maximized /\ tilingStates = {"Left", "Bottom"}
    /\ margins("ShadowsExcluded") = Margins(0, ceTitlebarHeight, 0, 0)

\* QRectF rectangles with no point in common (their edges belong to them)
Disjoint(r1, r2) ==
    \/ r1.x + r1.w < r2.x
    \/ r2.x + r2.w < r1.x
    \/ r1.y + r1.h < r2.y
    \/ r2.y + r2.h < r1.y

\* the horizontal distance between the facing edges of two rectangles
HorizontalGap(r1, r2) ==
    IF r1.x <= r2.x THEN r2.x - (r1.x + r1.w) ELSE r1.x - (r2.x + r2.w)

\* C14: in every configuration the layout parser produces, for both placements and
\* every window state, the rectangles of two different present buttons are disjoint,
\* and those of buttons at adjacent positions are the button spacing (12) apart
\* horizontally.
C14_ButtonRectsDisjoint ==
    \A j \in DOMAIN m_buttons : \A k \in (DOMAIN m_buttons) \ {j} :
        /\ Disjoint(buttonRect(j), buttonRect(k))
        /\ m_buttons[k] = m_buttons[j] + 1 =>
              HorizontalGap(buttonRect(j), buttonRect(k)) = ceButtonSpacing

\* three buttons anchored on the left of a window tiled on the left
C14_Witness ==
    /\ Cardinality(DOMAIN m_buttons) = 3
    /\ m_placement = "Left"
    /\ ~maximized /\ tilingStates = {"Left"}
    /\ lastEvent.kind = "configure"

ExpectedTouchAction ==
    IF lastEvent.state # "Pressed" THEN "none"
    ELSE IF lastEvent.hit # "None" THEN ActionOf(lastEvent.hit)
    ELSE IF lastEvent.local.y <= margins("Full").top THEN "move"
    ELSE "none"

\* C16: a touch event is reported handled exactly when its phase is press and the
\* point hits the Close, Maximize or Minimize rectangle or the drag band (y not below
\* the top margin), and then exactly the one corresponding request is emitted; every
\* other phase and every miss is reported unhandled and emits no request.
C16_TouchHandledIff ==
    IsTouch =>
        /\ lastEvent.handled <=> ExpectedTouchAction # "none"
        /\ lastEvent.reqs = IF ExpectedTouchAction = "none"
                            THEN << >>
                            ELSE << Req(ExpectedTouchAction) >>

\* the classification of handleMouse: in none of the top, bottom, left, right bands
InClientArea(local) ==
    /\ local.y > RectTop(windowContentGeometry) + margins("Full").top
    /\ local.y <= RectBottom(windowContentGeometry) - margins("Full").bottom
    /\ local.x > RectLeft(windowContentGeometry) + margins("Full").left
    /\ local.x <= RectRight(windowContentGeometry) - margins("Full").right

\* C17: a mouse event whose coordinate is in none of the Top, Bottom, Left, Right
\* bands is reported to the caller as unhandled and emits no move, resize, close,
\* minimize, toggle-maximize or show-menu request.
C17_ClientAreaUnhandled ==
    (IsMouse /\ InClientArea(lastEvent.local)) =>
        /\ ~lastEvent.handled
        /\ lastEvent.reqs = << >>

\* a left press in the middle of the window
C17_Witness ==
    /\ IsMouse /\ InClientArea(lastEvent.local)
    /\ lastEvent.leftClicked
    /\ lastEvent.reqs = << >>
    /\ lastEvent.cursor = "Arrow"

\* C18 as stated: a right-button press on the draggable titlebar strip emits
\* requestShowMenu and then requestMove, in that order.
C18_Original ==
    (IsMouse /\ lastEvent.rightPressed /\ lastEvent.onStrip) =>
        lastEvent.reqs = << Req("showMenu"), Req("move") >>

\* C18 amended: a press of the right button alone on the draggable titlebar strip
\* emits requestShowMenu and nothing else: startMove is called afterwards, but it
\* starts a move only on a left-button press.
C18_Amended ==
    (IsMouse /\ lastEvent.rightPressed /\ lastEvent.onStrip) =>
        lastEvent.reqs = << Req("showMenu") >>

C18_Witness ==
    /\ IsMouse /\ lastEvent.rightPressed /\ lastEvent.onStrip
    /\ lastEvent.b = {"Right"}
    /\ lastEvent.reqs = << Req("showMenu") >>

DefaultConfiguration ==
    /\ m_buttons = [k \in {"Close"} |-> 1]
    /\ m_placement = "Right"

\* C19: the configuration is the built-in default (Close at position 1, placement
\* Right) at construction, and no step changes it other than the application of a
\* valid, non-empty fetch reply or of a change notification; so it stays the default
\* for as long as the reply is outstanding, and for good after an invalid or empty
\* one, while pointer events go on being handled.
C19_DefaultUntilApplied ==
    /\ DefaultConfiguration
    /\ [][(m_buttons' # m_buttons \/ m_placement' # m_placement) =>
              /\ lastEvent'.kind = "layout"
              /\ lastEvent'.viaReply => lastEvent'.replyOk]_vars
    /\ [](ENABLED StartupMouse)

\* a click on Close closes the window while the fetch is still unanswered
C19_Witness ==
    /\ phase = "initialized" /\ fetch = "pending"
    /\ DefaultConfiguration
    /\ IsMouse /\ lastEvent.leftReleased /\ lastEvent.hit = "Close"
    /\ lastEvent.reqs = << Req("close") >>

\* C20: a paint replaces the cached shadow bitmap exactly when the shadow is drawn
\* (window active, not maximized, not tiled) and the cached bitmap's size differs from
\* the size of the surface, and the new bitmap has that size and the palette in use; a
\* change of the colour scheme leaves the cached bitmap as it is, so that a later paint
\* at the same size draws the bitmap computed under the old palette.
C20_ShadowCache ==
    /\ [][lastEvent'.kind = "paint" =>
             /\ m_shadowPixmap' # m_shadowPixmap
                    <=> (shadowDrawn
                         /\ m_shadowPixmap.size # RectSize(windowContentGeometry))
             /\ m_shadowPixmap' # m_shadowPixmap =>
                    m_shadowPixmap' = [size |-> RectSize(windowContentGeometry),
                                       color |-> m_colors]]_vars
    /\ [][m_colors' # m_colors => m_shadowPixmap' = m_shadowPixmap]_vars

\* the shadow was just drawn from a bitmap of the right size computed under the light
\* palette, while the palette in use is the dark one
C20_Witness ==
    /\ lastEvent.kind = "paint"
    /\ shadowDrawn
    /\ m_shadowPixmap.size = RectSize(windowContentGeometry)
    /\ m_shadowPixmap.color = "light"
    /\ m_colors = "dark"

\* C22: after a mouse event in which the left button goes from down to up, in any
\* region, no button is armed; and a button is armed only while the recorded state of
\* the mouse buttons has the left button down.
C22_ArmedOnlyWhileLeftDown ==
    /\ (IsMouse /\ lastEvent.leftReleased) => m_clicking = "None"
    /\ m_clicking # "None" => "Left" \in m_mouseButtons

\* a press on Close released in the client area
C22_Witness ==
    /\ IsMouse /\ lastEvent.leftReleased
    /\ lastEvent.armedBefore = "Close"
    /\ InClientArea(lastEvent.local)
    /\ m_clicking = "None" /\ m_mouseButtons = {}

\* C23: one button at most is armed, and a left release inside the rectangle of a
\* button other than the armed one emits the action of neither and leaves no button
\* armed.
C23_MismatchedReleaseCancels ==
    /\ m_clicking \in Buttons \cup {"None"}
    /\ (IsMouse /\ lastEvent.leftReleased /\ lastEvent.hit # "None"
          /\ lastEvent.armedBefore \notin {"None", lastEvent.hit}) =>
            /\ ~HasReq(lastEvent.reqs, ActionOf(lastEvent.hit))
            /\ ~HasReq(lastEvent.reqs, ActionOf(lastEvent.armedBefore))
            /\ m_clicking = "None"

\* press on Maximize, release on Close
C23_Witness ==
    /\ IsMouse /\ lastEvent.leftReleased
    /\ lastEvent.armedBefore = "Maximize" /\ lastEvent.hit = "Close"
    /\ lastEvent.reqs = << >>
    /\ m_clicking = "None"

\* the top band of handleMouse
InTopBand(local) == local.y <= RectTop(windowContentGeometry) + margins("Full").top

\* C26: after a mouse event in the top band outside the rectangle of every visible
\* button, and after a mouse event below the top margin, no button is hovered.
C26_HoverCleared ==
    (IsMouse /\ (~InTopBand(lastEvent.local) \/ lastEvent.hit = "None")) =>
        m_hoveredButtons = {}

\* the point is more than the double-click distance away, on the x axis, from every
\* point of the button's rectangle
FarFromButton(local, k) ==
    \/ buttonRect(k).x - local.x > doubleClickDistance
    \/ local.x - (buttonRect(k).x + buttonRect(k).w) > doubleClickDistance

\* a left press on the strip for which the left press in the top band just before it
\* landed on a button
StripPressAfterButtonPress ==
    IsMouse /\ lastEvent.leftClicked /\ lastEvent.onStrip /\ lastEvent.pressBetween # "None"

\* C24 as stated: a left press on a button becomes the reference of the double-click
\* test, so a left press on the strip that follows a press on a button further away
\* than the double-click distance is not taken for a double click.
C24_Original ==
    (StripPressAfterButtonPress /\ FarFromButton(lastEvent.local, lastEvent.pressBetween))
        => ~TakenForDouble

\* C24 amended: a left press on a button changes neither lastClickTime nor
\* lastClickPosition, which stay those of the strip presses; a left press on the strip
\* that follows a press on a button is compared with the strip press before that one:
\* when that press was a single click, it is a double click exactly when at most
\* 500 ms passed since it and the two are at most 5 units apart on each axis.
C24_Amended ==
    /\ (IsMouse /\ lastEvent.leftClicked /\ lastEvent.hit # "None") =>
          /\ m_lastButtonClick = IF lastStripPress = NoPress THEN 0 ELSE lastStripPress.time
          /\ m_lastButtonClickPosition = lastStripPress.refPos
    /\ (StripPressAfterButtonPress /\ ~lastEvent.prevDouble) =>
          (TakenForDouble <=> (lastEvent.gap <= 500 /\ lastEvent.dist <= 5))

\* strip, Close, strip: the third press at the point of the first, 300 ms after it
C24_Witness ==
    /\ StripPressAfterButtonPress /\ lastEvent.pressBetween = "Close"
    /\ FarFromButton(lastEvent.local, "Close")
    /\ lastEvent.gap = 300 /\ lastEvent.dist = 0 /\ ~lastEvent.prevDouble
    /\ TakenForDouble

\* C25: a fetch reply that is not empty but lacks the color-scheme key leaves the
\* palette as it was just before the reply, and one that lacks the button-layout key,
\* or has it empty, leaves the buttons and the placement as they were, also when a
\* change notification was applied before the reply.
C25_PartialReplyRetains ==
    [][(lastEvent'.kind = "layout" /\ lastEvent'.viaReply /\ lastEvent'.replyOk) =>
          /\ lastEvent'.noColorKey => m_colors' = m_colors
          /\ lastEvent'.noLayoutKey =>
                (m_buttons' = m_buttons /\ m_placement' = m_placement)]_vars

\* C21: a mouse event in the top band whose coordinate is inside the rectangle of a
\* visible button is dispatched to that button (hovered unless the click fires, armed
\* on a left press) and emits no resize and no move request, whatever the width of
\* the surface and the window state.
C21_ButtonsFirst ==
    (IsMouse /\ InTopBand(lastEvent.local) /\ lastEvent.hit # "None") =>
        /\ ~HasReq(lastEvent.reqs, "resize")
        /\ ~HasReq(lastEvent.reqs, "move")
        /\ lastEvent.leftClicked => m_clicking = lastEvent.hit
        /\ ~lastEvent.leftReleased => m_hoveredButtons = {lastEvent.hit}

\* C27: at most one button is hovered in every state, and after a mouse move into the
\* rectangle of a visible button exactly that button is hovered.
C27_HoverSingle ==
    /\ Cardinality(m_hoveredButtons) <= 1
    /\ (IsMouse /\ lastEvent.hit # "None" /\ lastEvent.b = {} /\ ~lastEvent.leftReleased)
          => m_hoveredButtons = {lastEvent.hit}

\* the four tests of handleMouse, on the margins and the surface as they are
AboveTopMargin(local) ==
    local.y <= RectTop(windowContentGeometry) + margins("Full").top
BelowBottomMargin(local) ==
    local.y > RectBottom(windowContentGeometry) - margins("Full").bottom
LeftOfLeftMargin(local) ==
    local.x <= RectLeft(windowContentGeometry) + margins("Full").left
RightOfRightMargin(local) ==
    local.x > RectRight(windowContentGeometry) - margins("Full").right

\* a mouse event is handled as one area, the first in the order top, bottom, left,
\* right whose test holds, the client area if none does
ClassifiedInOrder ==
    IsMouse =>
        /\ lastEvent.area = "Top" <=> AboveTopMargin(lastEvent.local)
        /\ lastEvent.area = "Bottom" <=>
              (~AboveTopMargin(lastEvent.local) /\ BelowBottomMargin(lastEvent.local))
        /\ lastEvent.area = "Left" <=>
              /\ ~AboveTopMargin(lastEvent.local) /\ ~BelowBottomMargin(lastEvent.local)
              /\ LeftOfLeftMargin(lastEvent.local)
        /\ lastEvent.area = "Right" <=>
              /\ ~AboveTopMargin(lastEvent.local) /\ ~BelowBottomMargin(lastEvent.local)
              /\ ~LeftOfLeftMargin(lastEvent.local) /\ RightOfRightMargin(lastEvent.local)
        /\ lastEvent.area = "Client" <=>
              /\ ~AboveTopMargin(lastEvent.local) /\ ~BelowBottomMargin(lastEvent.local)
              /\ ~LeftOfLeftMargin(lastEvent.local) /\ ~RightOfRightMargin(lastEvent.local)
        /\ lastEvent.area = "Client" =>
              (lastEvent.cursor = "Arrow" /\ lastEvent.reqs = << >>)
        /\ lastEvent.area \in {"Left", "Right"} =>
              /\ lastEvent.cursor = "SizeHor"
              /\ lastEvent.leftClicked => lastEvent.reqs = << Resize({lastEvent.area}) >>
        /\ (lastEvent.area = "Bottom" /\ lastEvent.leftClicked) =>
              /\ Len(lastEvent.reqs) = 1
              /\ lastEvent.reqs[1].req = "resize" /\ "Bottom" \in lastEvent.reqs[1].edges

TopCorners ==
    {Point(RectLeft(windowContentGeometry), RectTop(windowContentGeometry)),
     Point(RectRight(windowContentGeometry), RectTop(windowContentGeometry))}

BottomCorners ==
    {Point(RectLeft(windowContentGeometry), RectBottom(windowContentGeometry)),
     Point(RectRight(windowContentGeometry), RectBottom(windowContentGeometry))}

\* C28 as stated: every mouse coordinate is classified as exactly one area by the
\* tests in the order top, bottom, left, right, so the four corners of the surface
\* belong to the top or to the bottom band, never to the left or the right one.
C28_Original ==
    /\ ClassifiedInOrder
    /\ (IsMouse /\ lastEvent.local \in TopCorners \cup BottomCorners) =>
          lastEvent.area \in {"Top", "Bottom"}

\* C28 amended: every mouse coordinate is classified as exactly one area by the tests
\* in the order top, bottom, left, right; the two top corners of the surface belong to
\* the top band, and the two bottom corners to the bottom band when the bottom margin
\* is positive; when it is zero (maximized, or tiled at the bottom) they belong to
\* the left band, the right band or the client area.
C28_Amended ==
    /\ ClassifiedInOrder
    /\ (IsMouse /\ lastEvent.local \in TopCorners) => lastEvent.area = "Top"
    /\ (IsMouse /\ lastEvent.local \in BottomCorners) =>
          IF margins("Full").bottom > 0
          THEN lastEvent.area = "Bottom"
          ELSE lastEvent.area \in {"Left", "Right", "Client"}

\* a left press on the bottom left corner of a maximized window resizes its left edge
C28_Witness ==
    /\ IsMouse /\ maximized
    /\ lastEvent.local = Point(0, 199) /\ lastEvent.local \in BottomCorners
    /\ lastEvent.area = "Left"
    /\ lastEvent.leftClicked /\ lastEvent.reqs = << Resize({"Left"}) >>

\* C29: in the near-top-edge sub-band (y <= top + bottom margin) a left press resizes
\* top and left when x is within the left margin, top and right when x is beyond
\* right - right margin, and top otherwise, for every combination of tiled edges.
C29_TopSubBand ==
    (IsMouse /\ lastEvent.leftClicked
       /\ lastEvent.local.y <= RectTop(windowContentGeometry) + margins("Full").bottom) =>
        lastEvent.reqs =
            << Resize(IF LeftOfLeftMargin(lastEvent.local) THEN {"Top", "Left"}
                      ELSE IF RightOfRightMargin(lastEvent.local) THEN {"Top", "Right"}
                      ELSE {"Top"}) >>

\* within the width of the shadow of an edge of the surface
InShadow(local) ==
    \/ local.x < ceShadowsWidth
    \/ local.x >= surfaceSize[1] - ceShadowsWidth
    \/ local.y < ceShadowsWidth
    \/ local.y >= surfaceSize[2] - ceShadowsWidth

\* C30 as stated: a pointer event in the shadow-only part of the margin of a window
\* that is neither maximized nor tiled produces no resize request.
C30_Original ==
    (IsMouse /\ ~maximized /\ tilingStates = {} /\ InShadow(lastEvent.local)) =>
        ~HasReq(lastEvent.reqs, "resize")

\* C30 amended: the resize bands of a window that is neither maximized nor tiled are as
\* wide as the whole margin, shadow and border: a left press within the margin of the
\* left, right, top or bottom edge, in the shadow as well as in the border, emits
\* exactly one resize request, and an event that is no left press emits none.
C30_Amended ==
    (IsMouse /\ ~maximized /\ tilingStates = {}
       /\ (\/ LeftOfLeftMargin(lastEvent.local) \/ RightOfRightMargin(lastEvent.local)
           \/ BelowBottomMargin(lastEvent.local)
           \/ lastEvent.local.y <= RectTop(windowContentGeometry)
                                        + margins("Full").bottom)) =>
        IF lastEvent.leftClicked
        THEN Len(lastEvent.reqs) = 1 /\ lastEvent.reqs[1].req = "resize"
        ELSE lastEvent.reqs = << >>

\* a left press in the shadow on the left resizes the left edge
C30_Witness ==
    /\ IsMouse /\ ~maximized /\ tilingStates = {}
    /\ lastEvent.local = Point(5, 100) /\ InShadow(lastEvent.local)
    /\ lastEvent.leftClicked
    /\ lastEvent.reqs = << Resize({"Left"}) >>


(***************************************************************************)
(* Claims C31 .. C39                                                       *)
(***************************************************************************)

\* C31: in every window state the y coordinate of buttonRect puts the button, which is
\* ceButtonWidth high, in the vertical centre of the titlebar band, the band of height
\* ceTitlebarHeight that ends at the top margin.
C31_ButtonCentred ==
    buttonY = (margins("Full").top - ceTitlebarHeight)
                  + (ceTitlebarHeight - ceButtonWidth) \div 2

\* a layout string with exactly one ':'
WellFormed(layout) == Len(Split(layout, ":")) = 2

\* the configuration the constructor leaves
ConstructedCfg == [placement |-> "Right", buttons |-> [k \in {"Close"} |-> 1]]

\* the step applies layout, by a change notification or by the fetch reply
AppliesLayout(layout) ==
    \/ SettingChanged(LayoutNotification(layout))
    \/ SettingsReply([valid |-> TRUE, empty |-> FALSE, colorScheme |-> 0,
                      buttonLayout |-> layout, boldFont |-> FALSE])

\* C32: the button map and the placement after a well-formed layout string (exactly
\* one ':') is applied depend on the string alone: they are what applying the string
\* to the constructed configuration gives, whatever layouts were applied before, and
\* applying the string once more changes nothing.
C32_ClearThenRebuild ==
    [][(lastEvent'.kind = "layout" /\ lastEvent'.segments = 2) =>
          \A layout \in Layouts :
              (WellFormed(layout) /\ AppliesLayout(layout)) =>
                  /\ m_placement' = updateTitlebarLayout(ConstructedCfg, layout).placement
                  /\ m_buttons' = updateTitlebarLayout(ConstructedCfg, layout).buttons
                  /\ updateTitlebarLayout([placement |-> m_placement',
                                           buttons |-> m_buttons'], layout).placement
                         = m_placement'
                  /\ updateTitlebarLayout([placement |-> m_placement',
                                           buttons |-> m_buttons'], layout).buttons
                         = m_buttons']_vars

\* a change notification, after the fetch reply was handled, whose two-segment string
\* leaves Minimize alone on the right although Close was in the map before every update
C32_Witness ==
    /\ lastEvent.kind = "layout" /\ ~lastEvent.viaReply /\ lastEvent.segments = 2
    /\ fetch = "done"
    /\ m_placement = "Right"
    /\ m_buttons = [k \in {"Minimize"} |-> 1]

\* C33: while the window is maximized no mouse event emits a resize request, and while
\* an edge is tiled no mouse event emits a resize request whose edges include it.
C33_NoResizeOfFixedEdges ==
    IsMouse =>
        \A i \in 1..Len(lastEvent.reqs) :
            lastEvent.reqs[i].req = "resize" =>
                /\ ~maximized
                /\ lastEvent.reqs[i].edges \cap tilingStates = {}

\* C34: the window menu is requested on the press transition of the right button only:
\* a press of the right button alone on the draggable strip emits one show-menu
\* request, and an event on the strip that reports the right button as still down
\* (a motion during the hold), like the release, emits none.
C34_MenuOnPressOnly ==
    (IsMouse /\ lastEvent.onStrip) =>
        CountReq(lastEvent.reqs, "showMenu")
            = (IF lastEvent.rightPressed /\ lastEvent.b = {"Right"} THEN 1 ELSE 0)

\* C35: in every reachable state, the states right after a layout update delivered
\* between two pointer events included, every hovered button and the armed button,
\* if there is one, are present in the button map.
C35_HoverAndArmedPresent ==
    /\ \A button \in m_hoveredButtons : HasButton(m_buttons, button)
    /\ m_clicking # "None" => HasButton(m_buttons, m_clicking)

\* C36: right after a left release that fires the action of a button, that button is
\* not hovered, Close no more than Maximize and Minimize.
C36_FiredButtonNotHovered ==
    \A k \in Buttons :
        (IsMouse /\ lastEvent.leftReleased /\ lastEvent.hit = k
           /\ HasReq(lastEvent.reqs, ActionOf(k))) => k \notin m_hoveredButtons

\* C37: a pointer motion inside the rectangle of a button that was hovered already,
\* changing neither the hover set nor the pressed mouse buttons, issues no repaint
\* request.
C37_QuietMotionNoRepaint ==
    [][(/\ lastEvent'.kind = "mouse"
        /\ lastEvent'.hit # "None"
        /\ m_hoveredButtons = {lastEvent'.hit}
        /\ m_hoveredButtons' = m_hoveredButtons
        /\ m_mouseButtons' = m_mouseButtons) => lastEvent'.repaints = 0]_vars

\* C38: at every paint, whatever the interleaving of construction, the deferred
\* initialisation, the fetch reply and the change notifications, the colour map is one
\* of the two palettes updateColors installs, which define every colour role: a paint
\* never reads a role that has no value.
C38_PaletteAtPaint ==
    lastEvent.kind = "paint" => m_colors \in {updateColors(FALSE), updateColors(TRUE)}

\* C39: in every window state (maximized or not, every set of tiled edges) margins of
\* kind Full is, on each of the four sides, the sum of margins of kind ShadowsOnly and
\* margins of kind ShadowsExcluded.
C39_FullIsShadowPlusFrame ==
    /\ margins("Full").left
           = margins("ShadowsOnly").left + margins("ShadowsExcluded").left
    /\ margins("Full").top
           = margins("ShadowsOnly").top + margins("ShadowsExcluded").top
    /\ margins("Full").right
           = margins("ShadowsOnly").right + margins("ShadowsExcluded").right
    /\ margins("Full").bottom
           = margins("ShadowsOnly").bottom + margins("ShadowsExcluded").bottom

\* tiled at the top and on the right: the shadow is left on two sides only and the
\* top margin is the titlebar alone
C39_Witness ==
    /\ ~maximized /\ tilingStates = {"Top", "Right"}
    /\ lastEvent.kind = "configure"
    /\ margins("ShadowsOnly") = Margins(10, 0, 0, 10)
    /\ margins("ShadowsExcluded") = Margins(1, 38, 0, 1)
    /\ margins("Full") = Margins(11, 38, 0, 11)
=============================================================================
